---- MODULE Spec2Model ----
(***************************************************************************)
(* A model of src/src/solid.py: the Book value, the LibraryInterface       *)
(* contract, InMemoryLibrary, the two decorators (LoggingLibraryDecorator, *)
(* SortedViewLibrary), LibraryManager and the command loop of main.        *)
(*                                                                         *)
(* A Python str is a sequence of one-character strings (<<"D","u","n","e">>*)
(* is "Dune"), so that str.lower(), the ordering of strings, int() and the *)
(* f-strings are computed character by character.  A Python list is an     *)
(* object on a heap and a variable holds a reference to it, so that a      *)
(* returned list can be told apart from a copy of it.                      *)
(***************************************************************************)
EXTENDS Integers, Sequences, FiniteSets

\* ------------------------------------------------------------- bounds

\* Most books the store holds in the runs of Spec.
MaxBooks == 3
\* Most books the store holds, and most elements a caller's snapshot
\* holds, in the runs of SpecSnap.
MaxSnapBooks == 2
\* Most books the store holds in the runs of SpecMgr and of SpecMain.
MaxMgrBooks == 2

\* ------------------------------------------------------------- strings

\* The printable ASCII characters, code points 32..126 in order.  Code point 96
\* stands as "<backtick>": the lexer of the language takes no backtick in a
\* string, and no input of the model holds one.
Alphabet == <<" ","!","\"","#","$","%","&","'","(",")","*","+",",","-",".","/","0","1","2","3","4","5","6","7","8","9",":",";","<","=",">","?","@","A","B","C","D","E","F","G","H","I","J","K","L","M","N","O","P","Q","R","S","T","U","V","W","X","Y","Z","[","\\","]","^","_","<backtick>","a","b","c","d","e","f","g","h","i","j","k","l","m","n","o","p","q","r","s","t","u","v","w","x","y","z","{","|","}","~">>

\* The characters of the model beyond printable ASCII that are no digits, each
\* with its code point; "<U+000B>" is the one character U+000B.  They are the
\* whitespace of str.isspace() beyond the space.
ExtraChars ==
    << <<"\t", 9>>, <<"\n", 10>>, <<"<U+000B>", 11>>, <<"\f", 12>>, <<"\r", 13>>,
       <<"<U+001C>", 28>>, <<"<U+001D>", 29>>, <<"<U+001E>", 30>>, <<"<U+001F>", 31>>,
       <<"<U+0085>", 133>>, <<"<U+00A0>", 160>>,
       <<"<U+1680>", 5760>>, <<"<U+2000>", 8192>>, <<"<U+2001>", 8193>>,
       <<"<U+2002>", 8194>>, <<"<U+2003>", 8195>>, <<"<U+2004>", 8196>>,
       <<"<U+2005>", 8197>>, <<"<U+2006>", 8198>>, <<"<U+2007>", 8199>>,
       <<"<U+2008>", 8200>>, <<"<U+2009>", 8201>>, <<"<U+200A>", 8202>>,
       <<"<U+2028>", 8232>>, <<"<U+2029>", 8233>>, <<"<U+202F>", 8239>>,
       <<"<U+205F>", 8287>>, <<"<U+3000>", 12288>> >>

\* The decimal digits beyond ASCII (Unicode 14.0, category Nd: 65 runs of ten
\* characters): for each run the code point of its zero, and its characters in
\* the order of their values 0..9.
UnicodeDigits ==
    <<
       <<1632, <<"<U+0660>","<U+0661>","<U+0662>","<U+0663>","<U+0664>","<U+0665>","<U+0666>","<U+0667>","<U+0668>","<U+0669>">> >>,
       <<1776, <<"<U+06F0>","<U+06F1>","<U+06F2>","<U+06F3>","<U+06F4>","<U+06F5>","<U+06F6>","<U+06F7>","<U+06F8>","<U+06F9>">> >>,
       <<1984, <<"<U+07C0>","<U+07C1>","<U+07C2>","<U+07C3>","<U+07C4>","<U+07C5>","<U+07C6>","<U+07C7>","<U+07C8>","<U+07C9>">> >>,
       <<2406, <<"<U+0966>","<U+0967>","<U+0968>","<U+0969>","<U+096A>","<U+096B>","<U+096C>","<U+096D>","<U+096E>","<U+096F>">> >>,
       <<2534, <<"<U+09E6>","<U+09E7>","<U+09E8>","<U+09E9>","<U+09EA>","<U+09EB>","<U+09EC>","<U+09ED>","<U+09EE>","<U+09EF>">> >>,
       <<2662, <<"<U+0A66>","<U+0A67>","<U+0A68>","<U+0A69>","<U+0A6A>","<U+0A6B>","<U+0A6C>","<U+0A6D>","<U+0A6E>","<U+0A6F>">> >>,
       <<2790, <<"<U+0AE6>","<U+0AE7>","<U+0AE8>","<U+0AE9>","<U+0AEA>","<U+0AEB>","<U+0AEC>","<U+0AED>","<U+0AEE>","<U+0AEF>">> >>,
       <<2918, <<"<U+0B66>","<U+0B67>","<U+0B68>","<U+0B69>","<U+0B6A>","<U+0B6B>","<U+0B6C>","<U+0B6D>","<U+0B6E>","<U+0B6F>">> >>,
       <<3046, <<"<U+0BE6>","<U+0BE7>","<U+0BE8>","<U+0BE9>","<U+0BEA>","<U+0BEB>","<U+0BEC>","<U+0BED>","<U+0BEE>","<U+0BEF>">> >>,
       <<3174, <<"<U+0C66>","<U+0C67>","<U+0C68>","<U+0C69>","<U+0C6A>","<U+0C6B>","<U+0C6C>","<U+0C6D>","<U+0C6E>","<U+0C6F>">> >>,
       <<3302, <<"<U+0CE6>","<U+0CE7>","<U+0CE8>","<U+0CE9>","<U+0CEA>","<U+0CEB>","<U+0CEC>","<U+0CED>","<U+0CEE>","<U+0CEF>">> >>,
       <<3430, <<"<U+0D66>","<U+0D67>","<U+0D68>","<U+0D69>","<U+0D6A>","<U+0D6B>","<U+0D6C>","<U+0D6D>","<U+0D6E>","<U+0D6F>">> >>,
       <<3558, <<"<U+0DE6>","<U+0DE7>","<U+0DE8>","<U+0DE9>","<U+0DEA>","<U+0DEB>","<U+0DEC>","<U+0DED>","<U+0DEE>","<U+0DEF>">> >>,
       <<3664, <<"<U+0E50>","<U+0E51>","<U+0E52>","<U+0E53>","<U+0E54>","<U+0E55>","<U+0E56>","<U+0E57>","<U+0E58>","<U+0E59>">> >>,
       <<3792, <<"<U+0ED0>","<U+0ED1>","<U+0ED2>","<U+0ED3>","<U+0ED4>","<U+0ED5>","<U+0ED6>","<U+0ED7>","<U+0ED8>","<U+0ED9>">> >>,
       <<3872, <<"<U+0F20>","<U+0F21>","<U+0F22>","<U+0F23>","<U+0F24>","<U+0F25>","<U+0F26>","<U+0F27>","<U+0F28>","<U+0F29>">> >>,
       <<4160, <<"<U+1040>","<U+1041>","<U+1042>","<U+1043>","<U+1044>","<U+1045>","<U+1046>","<U+1047>","<U+1048>","<U+1049>">> >>,
       <<4240, <<"<U+1090>","<U+1091>","<U+1092>","<U+1093>","<U+1094>","<U+1095>","<U+1096>","<U+1097>","<U+1098>","<U+1099>">> >>,
       <<6112, <<"<U+17E0>","<U+17E1>","<U+17E2>","<U+17E3>","<U+17E4>","<U+17E5>","<U+17E6>","<U+17E7>","<U+17E8>","<U+17E9>">> >>,
       <<6160, <<"<U+1810>","<U+1811>","<U+1812>","<U+1813>","<U+1814>","<U+1815>","<U+1816>","<U+1817>","<U+1818>","<U+1819>">> >>,
       <<6470, <<"<U+1946>","<U+1947>","<U+1948>","<U+1949>","<U+194A>","<U+194B>","<U+194C>","<U+194D>","<U+194E>","<U+194F>">> >>,
       <<6608, <<"<U+19D0>","<U+19D1>","<U+19D2>","<U+19D3>","<U+19D4>","<U+19D5>","<U+19D6>","<U+19D7>","<U+19D8>","<U+19D9>">> >>,
       <<6784, <<"<U+1A80>","<U+1A81>","<U+1A82>","<U+1A83>","<U+1A84>","<U+1A85>","<U+1A86>","<U+1A87>","<U+1A88>","<U+1A89>">> >>,
       <<6800, <<"<U+1A90>","<U+1A91>","<U+1A92>","<U+1A93>","<U+1A94>","<U+1A95>","<U+1A96>","<U+1A97>","<U+1A98>","<U+1A99>">> >>,
       <<6992, <<"<U+1B50>","<U+1B51>","<U+1B52>","<U+1B53>","<U+1B54>","<U+1B55>","<U+1B56>","<U+1B57>","<U+1B58>","<U+1B59>">> >>,
       <<7088, <<"<U+1BB0>","<U+1BB1>","<U+1BB2>","<U+1BB3>","<U+1BB4>","<U+1BB5>","<U+1BB6>","<U+1BB7>","<U+1BB8>","<U+1BB9>">> >>,
       <<7232, <<"<U+1C40>","<U+1C41>","<U+1C42>","<U+1C43>","<U+1C44>","<U+1C45>","<U+1C46>","<U+1C47>","<U+1C48>","<U+1C49>">> >>,
       <<7248, <<"<U+1C50>","<U+1C51>","<U+1C52>","<U+1C53>","<U+1C54>","<U+1C55>","<U+1C56>","<U+1C57>","<U+1C58>","<U+1C59>">> >>,
       <<42528, <<"<U+A620>","<U+A621>","<U+A622>","<U+A623>","<U+A624>","<U+A625>","<U+A626>","<U+A627>","<U+A628>","<U+A629>">> >>,
       <<43216, <<"<U+A8D0>","<U+A8D1>","<U+A8D2>","<U+A8D3>","<U+A8D4>","<U+A8D5>","<U+A8D6>","<U+A8D7>","<U+A8D8>","<U+A8D9>">> >>,
       <<43264, <<"<U+A900>","<U+A901>","<U+A902>","<U+A903>","<U+A904>","<U+A905>","<U+A906>","<U+A907>","<U+A908>","<U+A909>">> >>,
       <<43472, <<"<U+A9D0>","<U+A9D1>","<U+A9D2>","<U+A9D3>","<U+A9D4>","<U+A9D5>","<U+A9D6>","<U+A9D7>","<U+A9D8>","<U+A9D9>">> >>,
       <<43504, <<"<U+A9F0>","<U+A9F1>","<U+A9F2>","<U+A9F3>","<U+A9F4>","<U+A9F5>","<U+A9F6>","<U+A9F7>","<U+A9F8>","<U+A9F9>">> >>,
       <<43600, <<"<U+AA50>","<U+AA51>","<U+AA52>","<U+AA53>","<U+AA54>","<U+AA55>","<U+AA56>","<U+AA57>","<U+AA58>","<U+AA59>">> >>,
       <<44016, <<"<U+ABF0>","<U+ABF1>","<U+ABF2>","<U+ABF3>","<U+ABF4>","<U+ABF5>","<U+ABF6>","<U+ABF7>","<U+ABF8>","<U+ABF9>">> >>,
       <<65296, <<"<U+FF10>","<U+FF11>","<U+FF12>","<U+FF13>","<U+FF14>","<U+FF15>","<U+FF16>","<U+FF17>","<U+FF18>","<U+FF19>">> >>,
       <<66720, <<"<U+104A0>","<U+104A1>","<U+104A2>","<U+104A3>","<U+104A4>","<U+104A5>","<U+104A6>","<U+104A7>","<U+104A8>","<U+104A9>">> >>,
       <<68912, <<"<U+10D30>","<U+10D31>","<U+10D32>","<U+10D33>","<U+10D34>","<U+10D35>","<U+10D36>","<U+10D37>","<U+10D38>","<U+10D39>">> >>,
       <<69734, <<"<U+11066>","<U+11067>","<U+11068>","<U+11069>","<U+1106A>","<U+1106B>","<U+1106C>","<U+1106D>","<U+1106E>","<U+1106F>">> >>,
       <<69872, <<"<U+110F0>","<U+110F1>","<U+110F2>","<U+110F3>","<U+110F4>","<U+110F5>","<U+110F6>","<U+110F7>","<U+110F8>","<U+110F9>">> >>,
       <<69942, <<"<U+11136>","<U+11137>","<U+11138>","<U+11139>","<U+1113A>","<U+1113B>","<U+1113C>","<U+1113D>","<U+1113E>","<U+1113F>">> >>,
       <<70096, <<"<U+111D0>","<U+111D1>","<U+111D2>","<U+111D3>","<U+111D4>","<U+111D5>","<U+111D6>","<U+111D7>","<U+111D8>","<U+111D9>">> >>,
       <<70384, <<"<U+112F0>","<U+112F1>","<U+112F2>","<U+112F3>","<U+112F4>","<U+112F5>","<U+112F6>","<U+112F7>","<U+112F8>","<U+112F9>">> >>,
       <<70736, <<"<U+11450>","<U+11451>","<U+11452>","<U+11453>","<U+11454>","<U+11455>","<U+11456>","<U+11457>","<U+11458>","<U+11459>">> >>,
       <<70864, <<"<U+114D0>","<U+114D1>","<U+114D2>","<U+114D3>","<U+114D4>","<U+114D5>","<U+114D6>","<U+114D7>","<U+114D8>","<U+114D9>">> >>,
       <<71248, <<"<U+11650>","<U+11651>","<U+11652>","<U+11653>","<U+11654>","<U+11655>","<U+11656>","<U+11657>","<U+11658>","<U+11659>">> >>,
       <<71360, <<"<U+116C0>","<U+116C1>","<U+116C2>","<U+116C3>","<U+116C4>","<U+116C5>","<U+116C6>","<U+116C7>","<U+116C8>","<U+116C9>">> >>,
       <<71472, <<"<U+11730>","<U+11731>","<U+11732>","<U+11733>","<U+11734>","<U+11735>","<U+11736>","<U+11737>","<U+11738>","<U+11739>">> >>,
       <<71904, <<"<U+118E0>","<U+118E1>","<U+118E2>","<U+118E3>","<U+118E4>","<U+118E5>","<U+118E6>","<U+118E7>","<U+118E8>","<U+118E9>">> >>,
       <<72016, <<"<U+11950>","<U+11951>","<U+11952>","<U+11953>","<U+11954>","<U+11955>","<U+11956>","<U+11957>","<U+11958>","<U+11959>">> >>,
       <<72784, <<"<U+11C50>","<U+11C51>","<U+11C52>","<U+11C53>","<U+11C54>","<U+11C55>","<U+11C56>","<U+11C57>","<U+11C58>","<U+11C59>">> >>,
       <<73040, <<"<U+11D50>","<U+11D51>","<U+11D52>","<U+11D53>","<U+11D54>","<U+11D55>","<U+11D56>","<U+11D57>","<U+11D58>","<U+11D59>">> >>,
       <<73120, <<"<U+11DA0>","<U+11DA1>","<U+11DA2>","<U+11DA3>","<U+11DA4>","<U+11DA5>","<U+11DA6>","<U+11DA7>","<U+11DA8>","<U+11DA9>">> >>,
       <<92768, <<"<U+16A60>","<U+16A61>","<U+16A62>","<U+16A63>","<U+16A64>","<U+16A65>","<U+16A66>","<U+16A67>","<U+16A68>","<U+16A69>">> >>,
       <<92864, <<"<U+16AC0>","<U+16AC1>","<U+16AC2>","<U+16AC3>","<U+16AC4>","<U+16AC5>","<U+16AC6>","<U+16AC7>","<U+16AC8>","<U+16AC9>">> >>,
       <<93008, <<"<U+16B50>","<U+16B51>","<U+16B52>","<U+16B53>","<U+16B54>","<U+16B55>","<U+16B56>","<U+16B57>","<U+16B58>","<U+16B59>">> >>,
       <<120782, <<"<U+1D7CE>","<U+1D7CF>","<U+1D7D0>","<U+1D7D1>","<U+1D7D2>","<U+1D7D3>","<U+1D7D4>","<U+1D7D5>","<U+1D7D6>","<U+1D7D7>">> >>,
       <<120792, <<"<U+1D7D8>","<U+1D7D9>","<U+1D7DA>","<U+1D7DB>","<U+1D7DC>","<U+1D7DD>","<U+1D7DE>","<U+1D7DF>","<U+1D7E0>","<U+1D7E1>">> >>,
       <<120802, <<"<U+1D7E2>","<U+1D7E3>","<U+1D7E4>","<U+1D7E5>","<U+1D7E6>","<U+1D7E7>","<U+1D7E8>","<U+1D7E9>","<U+1D7EA>","<U+1D7EB>">> >>,
       <<120812, <<"<U+1D7EC>","<U+1D7ED>","<U+1D7EE>","<U+1D7EF>","<U+1D7F0>","<U+1D7F1>","<U+1D7F2>","<U+1D7F3>","<U+1D7F4>","<U+1D7F5>">> >>,
       <<120822, <<"<U+1D7F6>","<U+1D7F7>","<U+1D7F8>","<U+1D7F9>","<U+1D7FA>","<U+1D7FB>","<U+1D7FC>","<U+1D7FD>","<U+1D7FE>","<U+1D7FF>">> >>,
       <<123200, <<"<U+1E140>","<U+1E141>","<U+1E142>","<U+1E143>","<U+1E144>","<U+1E145>","<U+1E146>","<U+1E147>","<U+1E148>","<U+1E149>">> >>,
       <<123632, <<"<U+1E2F0>","<U+1E2F1>","<U+1E2F2>","<U+1E2F3>","<U+1E2F4>","<U+1E2F5>","<U+1E2F6>","<U+1E2F7>","<U+1E2F8>","<U+1E2F9>">> >>,
       <<125264, <<"<U+1E950>","<U+1E951>","<U+1E952>","<U+1E953>","<U+1E954>","<U+1E955>","<U+1E956>","<U+1E957>","<U+1E958>","<U+1E959>">> >>,
       <<130032, <<"<U+1FBF0>","<U+1FBF1>","<U+1FBF2>","<U+1FBF3>","<U+1FBF4>","<U+1FBF5>","<U+1FBF6>","<U+1FBF7>","<U+1FBF8>","<U+1FBF9>">> >> >>

\* The value 0..9 of every decimal digit, ASCII or not.
AsciiDigits == <<"0","1","2","3","4","5","6","7","8","9">>
DigitTable ==
    [k \in 1..10 |->
        {AsciiDigits[k]} \cup {UnicodeDigits[r][2][k] : r \in 1..Len(UnicodeDigits)}]
DigitChars == UNION {DigitTable[k] : k \in 1..10}
DigitValues == [c \in DigitChars |-> (CHOOSE k \in 1..10 : c \in DigitTable[k]) - 1]

\* ord(c), and chr(n) on printable ASCII.
OrdTable ==
    [c \in {Alphabet[i] : i \in 1..Len(Alphabet)}
           \cup {ExtraChars[i][1] : i \in 1..Len(ExtraChars)}
           \cup DigitChars |->
        IF \E i \in 1..Len(Alphabet) : Alphabet[i] = c
        THEN 31 + (CHOOSE i \in 1..Len(Alphabet) : Alphabet[i] = c)
        ELSE IF \E i \in 1..Len(ExtraChars) : ExtraChars[i][1] = c
        THEN ExtraChars[CHOOSE i \in 1..Len(ExtraChars) : ExtraChars[i][1] = c][2]
        ELSE LET r == CHOOSE r \in 1..Len(UnicodeDigits) :
                          \E k \in 1..10 : UnicodeDigits[r][2][k] = c
             IN  UnicodeDigits[r][1] + DigitValues[c]]
Ord(c) == OrdTable[c]
Chr(n) == Alphabet[n - 31]

\* str.lower() on ASCII: "A".."Z" (65..90) go to "a".."z".
LowerChar(c) == IF Ord(c) >= 65 /\ Ord(c) <= 90 THEN Chr(Ord(c) + 32) ELSE c
Lower(s) == [i \in 1..Len(s) |-> LowerChar(s[i])]

\* a < b on str: lexicographic by code point, a proper prefix is smaller.
StrLess(a, b) ==
    \E k \in 1..(Len(a) + 1) :
        /\ k <= Len(b)
        /\ \A j \in 1..(k - 1) : a[j] = b[j]
        /\ \/ k = Len(a) + 1
           \/ Ord(a[k]) < Ord(b[k])

\* int() reads a str after turning every Unicode decimal digit into its ASCII
\* digit and every Unicode whitespace character into a space.
IsDigit(c) == c \in DigitChars
DigitValue(c) == DigitValues[c]
\* The characters int() drops around the number: U+0009..U+000D, the space,
\* U+0085, U+00A0, U+1680, U+2000..U+200A, U+2028, U+2029, U+202F, U+205F, U+3000.
Whitespace ==
    {" "} \cup
    {ExtraChars[i][1] : i \in
        {k \in 1..Len(ExtraChars) :
            \/ (ExtraChars[k][2] >= 9 /\ ExtraChars[k][2] <= 13)
            \/ ExtraChars[k][2] \in {133, 160, 5760, 8232, 8233, 8239, 8287, 12288}
            \/ (ExtraChars[k][2] >= 8192 /\ ExtraChars[k][2] <= 8202)}}
IsSpace(c) == c \in Whitespace

RECURSIVE LStrip(_)
LStrip(s) == IF s # <<>> /\ IsSpace(Head(s)) THEN LStrip(Tail(s)) ELSE s
RECURSIVE RStrip(_)
RStrip(s) ==
    IF s # <<>> /\ IsSpace(s[Len(s)]) THEN RStrip(SubSeq(s, 1, Len(s) - 1)) ELSE s
Strip(s) == RStrip(LStrip(s))

\* c.isspace(): the characters int() drops and U+001C..U+001F.
str_isspace(c) == IsSpace(c) \/ c \in {"<U+001C>", "<U+001D>", "<U+001E>", "<U+001F>"}
\* s.strip(): s without the whitespace (to isspace()) at its two ends.
str_strip(s) ==
    LET kept == {i \in 1..Len(s) : ~str_isspace(s[i])}
    IN  IF kept = {} THEN <<>>
        ELSE SubSeq(s, CHOOSE i \in kept : \A j \in kept : i <= j,
                       CHOOSE i \in kept : \A j \in kept : i >= j)

RECURSIVE DigitsValue(_)
DigitsValue(ds) ==
    IF ds = <<>> THEN 0
    ELSE 10 * DigitsValue(SubSeq(ds, 1, Len(ds) - 1)) + DigitValue(ds[Len(ds)])

\* A year check that takes digits only (value.isdigit()) in place of int().
py_int_digits_only(value) ==
    IF value # <<>> /\ \A i \in 1..Len(value) : IsDigit(value[i])
    THEN [ok |-> TRUE, val |-> DigitsValue(value)]
    ELSE [ok |-> FALSE, val |-> 0]

\* sys.int_info.default_max_str_digits: int() raises ValueError on a str of
\* more digits.
int_max_str_digits == 4300

\* int(value), base 10: surrounding whitespace is dropped, one sign is allowed,
\* then decimal digits, with single underscores allowed between digits.  ok is
\* FALSE where int() raises ValueError.
py_int(value) ==
    LET s    == Strip(value)
        sgn  == s # <<>> /\ Head(s) \in {"+", "-"}
        body == IF sgn THEN Tail(s) ELSE s
        wellFormed ==
            /\ body # <<>>
            /\ IsDigit(body[1])
            /\ IsDigit(body[Len(body)])
            /\ \A i \in 1..Len(body) : IsDigit(body[i]) \/ body[i] = "_"
            /\ \A i \in 1..(Len(body) - 1) : ~(body[i] = "_" /\ body[i + 1] = "_")
            /\ Len(SelectSeq(body, IsDigit)) <= int_max_str_digits
        mag  == DigitsValue(SelectSeq(body, IsDigit))
    IN  IF wellFormed
        THEN [ok |-> TRUE, val |-> IF sgn /\ Head(s) = "-" THEN 0 - mag ELSE mag]
        ELSE [ok |-> FALSE, val |-> 0]

\* str(n) of an int, as an f-string renders {self.year}.
RECURSIVE NatToStr(_)
NatToStr(n) ==
    IF n < 10 THEN <<Chr(48 + n)>> ELSE NatToStr(n \div 10) \o <<Chr(48 + (n % 10))>>
IntToStr(n) == IF n < 0 THEN <<"-">> \o NatToStr(0 - n) ELSE NatToStr(n)

\* ------------------------------------------------------------- Book

\* Book(title=..., author=..., year=...): a frozen dataclass, a plain value.
Book(title, author, year) == [title |-> title, author |-> author, year |-> year]

\* Book.__str__: the f-string  Title: "{self.title}", Author: {self.author}, Year: {self.year}
Book_str(b) ==
    <<"T","i","t","l","e",":"," ","\"">> \o b.title
    \o <<"\"",","," ","A","u","t","h","o","r",":"," ">> \o b.author
    \o <<","," ","Y","e","a","r",":"," ">> \o IntToStr(b.year)

\* ------------------------------------------------------------- effects

\* A world is what a call can change: heap, the list objects (heap[r] is the
\* content of the list with reference r), and trace, the side effects of the
\* call in program order (lines written to stdout, mutations of a list).

\* self._books = []: the first list the program allocates (InMemoryLibrary.__init__).
BooksRef == 1

\* print(line)
print(w, line) == [w EXCEPT !.trace = Append(@, [ev |-> "print", arg |-> line])]

\* list(xs), sorted(xs): a new list object; ret is the reference to it.
list_new(w, xs) == [w |-> [w EXCEPT !.heap = Append(@, xs)], ret |-> Len(w.heap) + 1]

\* lst.append(x)
list_append(w, ref, x) ==
    [w EXCEPT !.heap[ref] = Append(@, x),
              !.trace = Append(@, [ev |-> "append", arg |-> x])]

\* del lst[idx]  (idx counts from 1 here, from 0 in Python)
list_del(w, ref, idx) ==
    [w EXCEPT !.heap[ref] = SubSeq(@, 1, idx - 1) \o SubSeq(@, idx + 1, Len(@)),
              !.trace = Append(@, [ev |-> "del", arg |-> idx])]

\* ------------------------------------------------------------- InMemoryLibrary

\* A library object is the sequence of the classes from the outermost object
\* down to the InMemoryLibrary: Head(self) is the class of the object, Tail(self)
\* is self._inner.
Inner(self) == Tail(self)

\* add_book putting the book first: self._books.insert(0, book)
InMemoryLibrary_add_book_in_front(self, w, book) ==
    [w |-> [w EXCEPT !.heap[BooksRef] = <<book>> \o @,
                     !.trace = Append(@, [ev |-> "append", arg |-> book])],
     ret |-> "None"]

\* self._books.append(book)
InMemoryLibrary_add_book(self, w, book) ==
    [w |-> list_append(w, BooksRef, book), ret |-> "None"]

\* for idx, b in enumerate(self._books): if b.title.lower() == t: ...
\* The index of the first book from idx on whose lower-cased title is t, 0 if none.
RECURSIVE remove_book_scan(_, _, _)
remove_book_scan(books, t, idx) ==
    IF idx > Len(books) THEN 0
    ELSE IF Lower(books[idx].title) = t THEN idx
    ELSE remove_book_scan(books, t, idx + 1)

\* remove_book deleting the last match in place of the first.
InMemoryLibrary_remove_book_last_match(self, w, title) ==
    LET books == w.heap[BooksRef]
        m     == {i \in 1..Len(books) : Lower(books[i].title) = Lower(title)}
    IN  IF m # {}
        THEN [w |-> list_del(w, BooksRef, CHOOSE i \in m : \A j \in m : j <= i), ret |-> TRUE]
        ELSE [w |-> w, ret |-> FALSE]

\* remove_book comparing the titles as they are: b.title == title.
InMemoryLibrary_remove_book_case_sensitive(self, w, title) ==
    LET books == w.heap[BooksRef]
        m     == {i \in 1..Len(books) : books[i].title = title}
    IN  IF m # {}
        THEN [w |-> list_del(w, BooksRef, CHOOSE i \in m : \A j \in m : i <= j), ret |-> TRUE]
        ELSE [w |-> w, ret |-> FALSE]

InMemoryLibrary_remove_book(self, w, title) ==
    LET t   == Lower(title)
        idx == remove_book_scan(w.heap[BooksRef], t, 1)
    IN  IF idx # 0
        THEN [w |-> list_del(w, BooksRef, idx), ret |-> TRUE]
        ELSE [w |-> w, ret |-> FALSE]

\* get_books handing out the list itself: return self._books
InMemoryLibrary_get_books_no_copy(self, w) == [w |-> w, ret |-> BooksRef]

\* return list(self._books)
InMemoryLibrary_get_books(self, w) == list_new(w, w.heap[BooksRef])

\* ------------------------------------------------------------- decorators

\* LibraryInterface: the call of a method on an object of any of the classes.
RECURSIVE add_book(_, _, _)
RECURSIVE remove_book(_, _, _)
RECURSIVE get_books(_, _)

LoggingLibraryDecorator_add_book(self, w, book) ==
    add_book(Inner(self),
             print(w, <<"[","L","O","G","]"," ","a","d","d",":"," ">> \o Book_str(book)),
             book)

\* remove_book logging once the inner call has returned.
LoggingLibraryDecorator_remove_book_logs_after(self, w, title) ==
    LET r == remove_book(Inner(self), w, title)
    IN  [w |-> print(r.w, <<"[","L","O","G","]"," ","r","e","m","o","v","e",":"," ","\"">>
                          \o title \o <<"\"">>),
         ret |-> r.ret]

LoggingLibraryDecorator_remove_book(self, w, title) ==
    remove_book(Inner(self),
                print(w, <<"[","L","O","G","]"," ","r","e","m","o","v","e",":"," ","\"">>
                         \o title \o <<"\"">>),
                title)

LoggingLibraryDecorator_get_books(self, w) == get_books(Inner(self), w)

\* The sort key without lower(): (b.title, b.year)
SortKey_case_sensitive(b) == <<b.title, b.year>>

\* key=lambda b: (b.title.lower(), b.year)
SortKey(b) == <<Lower(b.title), b.year>>

\* k1 < k2 on the tuples (str, int)
KeyLess(k1, k2) == StrLess(k1[1], k2[1]) \/ (k1[1] = k2[1] /\ k1[2] < k2[2])

\* sorted(xs, key=...): stable, so an element goes after the elements whose key
\* is not greater than its own.
RECURSIVE InsertSorted(_, _)
InsertSorted(ys, x) ==
    IF ys = <<>> THEN <<x>>
    ELSE IF KeyLess(SortKey(x), SortKey(Head(ys))) THEN <<x>> \o ys
    ELSE <<Head(ys)>> \o InsertSorted(Tail(ys), x)
RECURSIVE sorted(_)
sorted(xs) ==
    IF xs = <<>> THEN <<>>
    ELSE InsertSorted(sorted(SubSeq(xs, 1, Len(xs) - 1)), xs[Len(xs)])

\* add_book keeping the inner store itself in sorted order.
SortedViewLibrary_add_book_sorts_store(self, w, book) ==
    LET r == add_book(Inner(self), w, book)
    IN  [w |-> [r.w EXCEPT !.heap[BooksRef] = sorted(@)], ret |-> r.ret]

SortedViewLibrary_add_book(self, w, book) == add_book(Inner(self), w, book)

SortedViewLibrary_remove_book(self, w, title) == remove_book(Inner(self), w, title)

\* get_books that only delegates.
SortedViewLibrary_get_books_unsorted(self, w) == get_books(Inner(self), w)

SortedViewLibrary_get_books(self, w) ==
    LET r == get_books(Inner(self), w)
    IN  list_new(r.w, sorted(r.w.heap[r.ret]))

add_book(self, w, book) ==
    CASE Head(self) = "InMemoryLibrary"         -> InMemoryLibrary_add_book(self, w, book)
      [] Head(self) = "LoggingLibraryDecorator" -> LoggingLibraryDecorator_add_book(self, w, book)
      [] Head(self) = "SortedViewLibrary"       -> SortedViewLibrary_add_book(self, w, book)

remove_book(self, w, title) ==
    CASE Head(self) = "InMemoryLibrary"         -> InMemoryLibrary_remove_book(self, w, title)
      [] Head(self) = "LoggingLibraryDecorator" -> LoggingLibraryDecorator_remove_book(self, w, title)
      [] Head(self) = "SortedViewLibrary"       -> SortedViewLibrary_remove_book(self, w, title)

get_books(self, w) ==
    CASE Head(self) = "InMemoryLibrary"         -> InMemoryLibrary_get_books(self, w)
      [] Head(self) = "LoggingLibraryDecorator" -> LoggingLibraryDecorator_get_books(self, w)
      [] Head(self) = "SortedViewLibrary"       -> SortedViewLibrary_get_books(self, w)

\* ------------------------------------------------------------- LibraryManager

\* _parse_year refusing only the negative years: if year < 0.
LibraryManager_parse_year_zero_allowed(value) ==
    LET p == py_int(value)
    IN  IF ~p.ok \/ p.val < 0
        THEN [raised |-> TRUE, ret |-> 0,
              msg |-> <<"Y","e","a","r"," ","m","u","s","t"," ","b","e"," ","a"," ","p","o","s","i","t","i","v","e"," ","i","n","t","e","g","e","r",".">>]
        ELSE [raised |-> FALSE, ret |-> p.val, msg |-> <<>>]

\* LibraryManager._parse_year: int(value) raising, and a year <= 0, both end in
\* ValueError("Year must be a positive integer.").
LibraryManager_parse_year(value) ==
    LET p == py_int(value)
        ValueError == [raised |-> TRUE, ret |-> 0,
                       msg |-> <<"Y","e","a","r"," ","m","u","s","t"," ","b","e"," ","a"," ","p","o","s","i","t","i","v","e"," ","i","n","t","e","g","e","r",".">>]
    IN  IF ~p.ok THEN ValueError
        ELSE IF p.val <= 0 THEN ValueError
        ELSE [raised |-> FALSE, ret |-> p.val, msg |-> <<>>]

\* LibraryManager.add_book(title, author, year_raw); self._lib is lib.
LibraryManager_add_book(lib, w, title, author, year_raw) ==
    LET year == LibraryManager_parse_year(year_raw)
    IN  IF year.raised
        THEN [w |-> w, raised |-> TRUE, msg |-> year.msg]
        ELSE LET r == add_book(lib, w, Book(title, author, year.ret))
             IN  [w |-> print(r.w, <<"B","o","o","k"," ","a","d","d","e","d",".">>),
                  raised |-> FALSE, msg |-> <<>>]

\* LibraryManager.remove_book(title)
LibraryManager_remove_book(lib, w, title) ==
    LET r == remove_book(lib, w, title)
    IN  [w |-> print(r.w, IF r.ret
                          THEN <<"B","o","o","k"," ","r","e","m","o","v","e","d",".">>
                          ELSE <<"B","o","o","k"," ","n","o","t"," ","f","o","u","n","d",".">>),
         raised |-> FALSE, msg |-> <<>>]

\* for b in books: print(b)
RECURSIVE print_each(_, _)
print_each(w, books) ==
    IF books = <<>> THEN w
    ELSE print_each(print(w, Book_str(Head(books))), Tail(books))

\* LibraryManager.show_books()
LibraryManager_show_books(lib, w) ==
    LET r     == get_books(lib, w)
        books == list_new(r.w, r.w.heap[r.ret])
        elems == books.w.heap[books.ret]
    IN  [w |-> IF elems = <<>>
               THEN print(books.w, <<"N","o"," ","b","o","o","k","s"," ","i","n"," ","l","i","b","r","a","r","y",".">>)
               ELSE print_each(books.w, elems),
         raised |-> FALSE, msg |-> <<>>]

\* ------------------------------------------------------------- main

\* input(prompt): the prompt goes to stdout with no newline after it, and the
\* line typed in reply is what input returns.
input(w, prompt) == [w EXCEPT !.trace = Append(@, [ev |-> "input", arg |-> prompt])]

\* command = input(...).strip().lower(), of the line typed in reply
main_command(line) == Lower(str_strip(line))

\* A turn of the while loop of main, manager being LibraryManager(lib), by the
\* case its command falls in.  lines are the lines typed in reply to the prompts
\* of the turn, in order (lines[1] in reply to the command prompt); exit is TRUE
\* where the turn ends the loop.

\* manager.add_book returned or raised: except ValueError as exc: print(f"Error: {exc}")
main_add_outcome(r) ==
    IF r.raised
    THEN print(r.w, <<"E","r","r","o","r",":"," ">> \o r.msg)
    ELSE r.w

\* case "add"
main_add(lib, w, lines) ==
    [w |-> main_add_outcome(
               LibraryManager_add_book(
                   lib,
                   input(input(input(input(w, <<"E","n","t","e","r"," ","c","o","m","m","a","n","d"," ","(","a","d","d",","," ","r","e","m","o","v","e",","," ","s","h","o","w",","," ","e","x","i","t",")",":"," ">>),
                                     <<"E","n","t","e","r"," ","b","o","o","k"," ","t","i","t","l","e",":"," ">>),
                               <<"E","n","t","e","r"," ","b","o","o","k"," ","a","u","t","h","o","r",":"," ">>),
                         <<"E","n","t","e","r"," ","b","o","o","k"," ","y","e","a","r",":"," ">>),
                   str_strip(lines[2]), str_strip(lines[3]), str_strip(lines[4]))),
     exit |-> FALSE]

\* case "remove"
main_remove(lib, w, lines) ==
    [w |-> LibraryManager_remove_book(
               lib,
               input(input(w, <<"E","n","t","e","r"," ","c","o","m","m","a","n","d"," ","(","a","d","d",","," ","r","e","m","o","v","e",","," ","s","h","o","w",","," ","e","x","i","t",")",":"," ">>),
                     <<"E","n","t","e","r"," ","b","o","o","k"," ","t","i","t","l","e"," ","t","o"," ","r","e","m","o","v","e",":"," ">>),
               str_strip(lines[2])).w,
     exit |-> FALSE]

\* case "show"
main_show(lib, w, lines) ==
    [w |-> LibraryManager_show_books(
               lib, input(w, <<"E","n","t","e","r"," ","c","o","m","m","a","n","d"," ","(","a","d","d",","," ","r","e","m","o","v","e",","," ","s","h","o","w",","," ","e","x","i","t",")",":"," ">>)).w,
     exit |-> FALSE]

\* case "exit": break
main_exit(lib, w, lines) ==
    [w |-> input(w, <<"E","n","t","e","r"," ","c","o","m","m","a","n","d"," ","(","a","d","d",","," ","r","e","m","o","v","e",","," ","s","h","o","w",","," ","e","x","i","t",")",":"," ">>),
     exit |-> TRUE]

\* case _
main_invalid(lib, w, lines) ==
    [w |-> print(input(w, <<"E","n","t","e","r"," ","c","o","m","m","a","n","d"," ","(","a","d","d",","," ","r","e","m","o","v","e",","," ","s","h","o","w",","," ","e","x","i","t",")",":"," ">>),
                 <<"I","n","v","a","l","i","d"," ","c","o","m","m","a","n","d","."," ","P","l","e","a","s","e"," ","t","r","y"," ","a","g","a","i","n",".">>),
     exit |-> FALSE]

\* ------------------------------------------------------------- inputs

Dune    == <<"D","u","n","e">>
DUNE    == <<"D","U","N","E">>
dune    == <<"d","u","n","e">>
N1984   == <<"1","9","8","4">>
Emma    == <<"E","m","m","a">>
emma    == <<"e","m","m","a">>
Ulysses == <<"U","l","y","s","s","e","s">>
Herbert == <<"H","e","r","b","e","r","t">>
Orwell  == <<"O","r","w","e","l","l">>
Austen  == <<"A","u","s","t","e","n">>

\* The books a caller adds in Spec: titles equal up to case with different
\* years, two different books with one sort key, a title whose case decides
\* its place ("Emma" is before "dune" by code point and after it lower-cased).
BookPool ==
    { Book(Dune, Herbert, 1965), Book(DUNE, Herbert, 1949), Book(dune, Orwell, 1965),
      Book(N1984, Orwell, 1949), Book(Emma, Austen, 1815) }

\* The titles a caller removes in Spec; no book has the last one.
RemoveTitles == { dune, DUNE, N1984, emma, Ulysses }

\* The books a caller adds, and the titles it removes, in SpecSnap.
SnapPool == { Book(Dune, Herbert, 1965), Book(N1984, Orwell, 1949) }
SnapTitles == { dune, N1984 }

\* The (title, author) pairs and the year strings the manager is given in
\* SpecMgr, and the titles it is asked to remove.
MgrBooks == { <<Dune, Herbert>>, <<N1984, Orwell>> }
RawYears ==
    { <<"1","9","6","5">>, <<"1","9","4","9">>, <<"1","9","9","9">>, <<"0">>, <<"-","3">>,
      <<"a","b","c">>, <<>>, <<" ","1","9","4","9"," ">>, <<"+","1","9","6","5">>,
      <<"1","_","9","9","9">>, <<"1","9","_","_","6","5">>, <<"1","9","6","5","_">>,
      <<"1","9",".","5">>, <<"-">>, <<"0","0","0">>, <<"\t","1","9","6","5">>,
      <<"1","9","6","5","\n">>, <<" ","\t","1","9","4","9","\r","\n">>,
      <<"<U+000B>","1","9","9","9","<U+00A0>">>, <<"<U+2003>","1","9","4","9","<U+3000>">>,
      <<"<U+001C>","1","9","6","5">>, <<"1"," ","9","6","5">>, <<"+","\t","5">>,
      <<"<U+0661>","<U+0669>","<U+0666>","<U+0665>">>, <<"1","<U+0669>","_","4","9">>,
      <<"<U+0660>">>, <<"<U+FF11>","<U+FF19>","<U+FF16>","<U+FF15>">>,
      <<"<U+06F1>","<U+06F9>","<U+06F4>","<U+06F9>">>,
      <<"<U+0967>","<U+096F>","<U+096F>","<U+096F>">>,
      <<"<U+1D7CF>","<U+1D7D7>","<U+1D7D2>","<U+1D7D7>">>,
      <<"<U+FF11>","<U+0669>","_","<U+06F6>","<U+096B>">>, <<"-","<U+FF15>">>,
      <<"<U+FF10>">>,
      <<"<U+3000>","<U+1E951>","<U+1E959>","<U+1E959>","<U+1E959>","<U+2028>">> }
MgrTitles == { dune, N1984, Ulysses }

\* The lines typed to main in SpecMain: in reply to the command prompt, and in
\* reply to the prompts for a title, an author and a year.
MainCommands ==
    { <<"a","d","d">>, <<" ","A","d","d","\t">>, <<"r","e","m","o","v","e">>, <<"R","E","M","O","V","E"," ">>,
      <<"s","h","o","w">>, <<"<U+001F>","S","h","o","w","<U+3000>">>, <<"e","x","i","t">>, <<" ","E","X","I","T">>,
      <<"l","i","s","t">>, <<>>, <<"a","d"," ","d">>, <<"a","d","d"," ","b","o","o","k">> }
MainTitles == { Dune, <<" ","1","9","8","4","\t">>, <<" ","d","u","n","e">> }
MainAuthors == { <<"H","e","r","b","e","r","t"," ">> }
MainYears ==
    { <<"1","9","6","5">>, <<" ","1","9","4","9"," ">>, <<"<U+001C>","1","9","6","5">>,
      <<"<U+FF11>","<U+FF19>","<U+FF14>","<U+FF19>">>, <<"0">>, <<"a","b","c">> }

\* The compositions of the classes: main's (SortedViewLibrary over
\* LoggingLibraryDecorator over InMemoryLibrary), its parts, and the other order.
InMemory == <<"InMemoryLibrary">>
MainLib == <<"SortedViewLibrary", "LoggingLibraryDecorator", "InMemoryLibrary">>
Libs ==
    { InMemory,
      <<"LoggingLibraryDecorator">> \o InMemory,
      <<"SortedViewLibrary">> \o InMemory,
      MainLib,
      <<"LoggingLibraryDecorator", "SortedViewLibrary">> \o InMemory }

\* ------------------------------------------------------------- state

VARIABLES
    lib,      \* the library object the caller (or the manager) holds
    heap,     \* the list objects: heap[BooksRef] is InMemoryLibrary._books
    snap,     \* the reference to the list the caller kept from get_books, 0 if none
    snapVal,  \* what the caller last saw or made of that list
    trace,    \* the side effects of the last call, in program order
    call,     \* the last call: [op, arg, ret]
    pre,      \* InMemoryLibrary._books before the last call
    adds,     \* the books added to lib so far, while no remove_book was called
    removed,  \* whether remove_book was ever called on lib
    plain,    \* a bare InMemoryLibrary given the calls made on lib: [books, ret]
              \* (adds, removed and plain follow the calls made on lib itself,
              \* in Spec and SpecSnap; the manager's calls and the turns of
              \* main leave them alone)
    e2e,      \* how many calls of E2EScript the manager's calls so far are, -1 once
              \* they differ (the turns of main leave it alone)
    exited    \* whether the loop of main has ended

vars == <<lib, heap, snap, snapVal, trace, call, pre, adds, removed, plain, e2e, exited>>

Init ==
    /\ lib \in Libs
    /\ heap = << <<>> >>
    /\ snap = 0
    /\ snapVal = <<>>
    /\ trace = <<>>
    /\ call = [op |-> "init", arg |-> <<>>, ret |-> "None"]
    /\ pre = <<>>
    /\ adds = <<>>
    /\ removed = FALSE
    /\ plain = [books |-> <<>>, ret |-> "None"]
    /\ e2e = 0
    /\ exited = FALSE

\* The world a call starts in.
World0 == [heap |-> heap, trace |-> <<>>]
PlainWorld0 == [heap |-> << plain.books >>, trace |-> <<>>]

\* The lists still referenced when a call has returned: _books and the list
\* the caller keeps (root, 0 for none); every other list of the call is freed.
Collect(h, root) ==
    IF root = 0 \/ root = BooksRef THEN << h[BooksRef] >> ELSE << h[BooksRef], h[root] >>
Reloc(root) == IF root = 0 \/ root = BooksRef THEN root ELSE 2

Reverse(xs) == [i \in 1..Len(xs) |-> xs[Len(xs) + 1 - i]]

\* The scenario of the end-to-end run, as calls of the manager.
E2EScript ==
    << [op |-> "mgr_add",    arg |-> <<Dune, Herbert, <<"1","9","6","5">> >>],
       [op |-> "mgr_add",    arg |-> <<N1984, Orwell, <<"1","9","4","9">> >>],
       [op |-> "mgr_show",   arg |-> <<>>],
       [op |-> "mgr_remove", arg |-> dune],
       [op |-> "mgr_show",   arg |-> <<>>] >>
E2ENext(op, arg) ==
    IF /\ e2e >= 0
       /\ e2e < Len(E2EScript)
       /\ E2EScript[e2e + 1].op = op
       /\ E2EScript[e2e + 1].arg = arg
    THEN e2e + 1
    ELSE -1

\* ------------------------------------------------------------- calls on a library

\* lib.add_book(b)
AddBook(b, max) ==
    /\ Len(heap[BooksRef]) < max
    /\ LET r == add_book(lib, World0, b)
           p == InMemoryLibrary_add_book(InMemory, PlainWorld0, b)
       IN  /\ heap' = Collect(r.w.heap, snap)
           /\ trace' = r.w.trace
           /\ call' = [op |-> "add", arg |-> b, ret |-> r.ret]
           /\ plain' = [books |-> p.w.heap[BooksRef], ret |-> p.ret]
    /\ pre' = heap[BooksRef]
    /\ adds' = IF removed THEN adds ELSE Append(adds, b)
    /\ UNCHANGED <<lib, snap, snapVal, removed, e2e, exited>>

\* lib.remove_book(t)
RemoveBook(t) ==
    /\ LET r == remove_book(lib, World0, t)
           p == InMemoryLibrary_remove_book(InMemory, PlainWorld0, t)
       IN  /\ heap' = Collect(r.w.heap, snap)
           /\ trace' = r.w.trace
           /\ call' = [op |-> "remove", arg |-> t, ret |-> r.ret]
           /\ plain' = [books |-> p.w.heap[BooksRef], ret |-> p.ret]
    /\ pre' = heap[BooksRef]
    /\ adds' = <<>>
    /\ removed' = TRUE
    /\ UNCHANGED <<lib, snap, snapVal, e2e, exited>>

\* lib.get_books(); the caller keeps the returned list when keep, and a list
\* it kept before is dropped.
GetBooks(keep) ==
    /\ LET r == get_books(lib, World0)
           p == InMemoryLibrary_get_books(InMemory, PlainWorld0)
       IN  /\ heap' = Collect(r.w.heap, IF keep THEN r.ret ELSE 0)
           /\ snap' = IF keep THEN Reloc(r.ret) ELSE 0
           /\ snapVal' = IF keep THEN r.w.heap[r.ret] ELSE <<>>
           /\ trace' = r.w.trace
           /\ call' = [op |-> "get", arg |-> <<>>, ret |-> r.w.heap[r.ret]]
           /\ plain' = [books |-> p.w.heap[BooksRef], ret |-> p.w.heap[p.ret]]
    /\ pre' = heap[BooksRef]
    /\ UNCHANGED <<lib, adds, removed, e2e, exited>>

\* The caller changes the list it kept to xs.
CallerMutates(xs) ==
    /\ heap' = [heap EXCEPT ![snap] = xs]
    /\ snapVal' = xs
    /\ trace' = <<>>
    /\ call' = [op |-> "mutate", arg |-> xs, ret |-> "None"]
    /\ pre' = heap[BooksRef]
    /\ UNCHANGED <<lib, snap, adds, removed, plain, e2e, exited>>

\* kept.append(b)
CallerAppends(b) ==
    /\ snap # 0
    /\ Len(heap[snap]) <= MaxSnapBooks
    /\ CallerMutates(Append(heap[snap], b))

\* del kept[i]
CallerDeletes(i) ==
    /\ snap # 0
    /\ i \in 1..Len(heap[snap])
    /\ CallerMutates(SubSeq(heap[snap], 1, i - 1) \o SubSeq(heap[snap], i + 1, Len(heap[snap])))

\* kept.reverse()
CallerReverses ==
    /\ snap # 0
    /\ Len(heap[snap]) >= 2
    /\ CallerMutates(Reverse(heap[snap]))

\* ------------------------------------------------------------- calls on the manager

\* A method of a LibraryManager called as it is, by any caller: the strings are
\* given to it as they are, and a ValueError it raises goes to the caller
\* (call.ret.raised, call.ret.msg).

\* A method of the manager returns, or raises.
MgrReturn(op, arg, r) ==
    /\ heap' = Collect(r.w.heap, 0)
    /\ trace' = r.w.trace
    /\ call' = [op |-> op, arg |-> arg, ret |-> [raised |-> r.raised, msg |-> r.msg]]
    /\ pre' = heap[BooksRef]
    /\ e2e' = E2ENext(op, arg)
    /\ UNCHANGED <<lib, snap, snapVal, adds, removed, plain, exited>>

\* manager.add_book(title, author, year_raw)
MgrAddBook(title, author, year_raw) ==
    /\ Len(heap[BooksRef]) < MaxMgrBooks \/ LibraryManager_parse_year(year_raw).raised
    /\ MgrReturn("mgr_add", <<title, author, year_raw>>,
                 LibraryManager_add_book(lib, World0, title, author, year_raw))

\* manager.remove_book(title)
MgrRemoveBook(title) ==
    LET r == LibraryManager_remove_book(lib, World0, title)
    IN  MgrReturn("mgr_remove", title, r)

\* manager.show_books()
MgrShowBooks ==
    LET r == LibraryManager_show_books(lib, World0)
    IN  MgrReturn("mgr_show", <<>>, r)

\* ------------------------------------------------------------- turns of main

\* main(): the objects it builds before the loop.
InitMain == Init /\ lib = MainLib

\* A turn of the loop of main is over: lines were typed in reply to its prompts.
MainTurn(op, lines, r) ==
    /\ heap' = Collect(r.w.heap, 0)
    /\ trace' = r.w.trace
    /\ exited' = r.exit
    /\ call' = [op |-> op, arg |-> lines, ret |-> "None"]
    /\ pre' = heap[BooksRef]
    /\ UNCHANGED <<lib, snap, snapVal, adds, removed, plain, e2e>>

\* match command: case "add"
MainAdd(c, title, author, year) ==
    /\ ~exited
    /\ main_command(c) = <<"a","d","d">>
    /\ \/ Len(heap[BooksRef]) < MaxMgrBooks
       \/ LibraryManager_parse_year(str_strip(year)).raised
    /\ MainTurn("main_add", <<c, title, author, year>>,
                main_add(lib, World0, <<c, title, author, year>>))

\* match command: case "remove"
MainRemove(c, title) ==
    /\ ~exited
    /\ main_command(c) = <<"r","e","m","o","v","e">>
    /\ MainTurn("main_remove", <<c, title>>, main_remove(lib, World0, <<c, title>>))

\* match command: case "show"
MainShow(c) ==
    /\ ~exited
    /\ main_command(c) = <<"s","h","o","w">>
    /\ MainTurn("main_show", <<c>>, main_show(lib, World0, <<c>>))

\* match command: case "exit"
MainExit(c) ==
    /\ ~exited
    /\ main_command(c) = <<"e","x","i","t">>
    /\ MainTurn("main_exit", <<c>>, main_exit(lib, World0, <<c>>))

\* match command: case _
MainInvalid(c) ==
    /\ ~exited
    /\ main_command(c) \notin {<<"a","d","d">>, <<"r","e","m","o","v","e">>, <<"s","h","o","w">>, <<"e","x","i","t">>}
    /\ MainTurn("main_invalid", <<c>>, main_invalid(lib, World0, <<c>>))

\* ------------------------------------------------------------- specifications

\* A caller of a library object: add_book, remove_book, get_books.
Next ==
    \/ \E b \in BookPool : AddBook(b, MaxBooks)
    \/ \E t \in RemoveTitles : RemoveBook(t)
    \/ GetBooks(FALSE)

Spec == Init /\ [][Next]_vars

\* A caller that keeps the list get_books returned and changes it.
NextSnap ==
    \/ \E b \in SnapPool : AddBook(b, MaxSnapBooks)
    \/ \E t \in SnapTitles : RemoveBook(t)
    \/ GetBooks(TRUE)
    \/ \E b \in SnapPool : CallerAppends(b)
    \/ \E i \in 1..(MaxSnapBooks + 1) : CallerDeletes(i)
    \/ CallerReverses

SpecSnap == Init /\ [][NextSnap]_vars

\* A caller of a LibraryManager: add_book, remove_book, show_books.
NextMgr ==
    \/ \E ta \in MgrBooks, y \in RawYears : MgrAddBook(ta[1], ta[2], y)
    \/ \E t \in MgrTitles : MgrRemoveBook(t)
    \/ MgrShowBooks

SpecMgr == Init /\ [][NextMgr]_vars

\* The user of main: a line typed in reply to each prompt.
NextMain ==
    \/ \E c \in MainCommands, t \in MainTitles, a \in MainAuthors, y \in MainYears :
           MainAdd(c, t, a, y)
    \/ \E c \in MainCommands, t \in MainTitles : MainRemove(c, t)
    \/ \E c \in MainCommands : MainShow(c)
    \/ \E c \in MainCommands : MainExit(c)
    \/ \E c \in MainCommands : MainInvalid(c)

SpecMain == InitMain /\ [][NextMain]_vars

\* ------------------------------------------------------------- properties

IsPrintEvent(e) == e.ev = "print"
IsListEvent(e) == e.ev \in {"append", "del"}
\* The lines a call wrote to stdout, in order.
Printed(tr) == [i \in 1..Len(SelectSeq(tr, IsPrintEvent)) |-> SelectSeq(tr, IsPrintEvent)[i].arg]

\* The places of the books whose title is t up to case.
Matches(books, t) == {i \in 1..Len(books) : Lower(books[i].title) = Lower(t)}
Without(books, k) == SubSeq(books, 1, k - 1) \o SubSeq(books, k + 1, Len(books))

Count(x, xs) == Cardinality({i \in 1..Len(xs) : xs[i] = x})
IsPermutation(xs, ys) ==
    /\ Len(xs) = Len(ys)
    /\ \A i \in 1..Len(xs) : Count(xs[i], xs) = Count(xs[i], ys)

Has(self, cls) == \E i \in 1..Len(self) : self[i] = cls

\* a is not after b under the key (title lower-cased, then year).
KeyNotAfter(a, b) ==
    \/ StrLess(Lower(a.title), Lower(b.title))
    \/ (Lower(a.title) = Lower(b.title) /\ a.year <= b.year)

\* C1: when some stored title equals t up to case, remove_book(t) deletes
\* exactly the earliest such record; every other record, a later match
\* included, stays, in its order.
C1_RemoveDeletesEarliestMatch ==
    (call.op = "remove" /\ Matches(pre, call.arg) # {}) =>
        LET k == CHOOSE i \in Matches(pre, call.arg) :
                     \A j \in Matches(pre, call.arg) : i <= j
        IN  heap[BooksRef] = Without(pre, k)

\* A remove_book whose title matches two records up to case, the first of
\* them not the first record and written in another case than the argument.
C1_Witness ==
    /\ call.op = "remove"
    /\ Cardinality(Matches(pre, call.arg)) >= 2
    /\ 1 \notin Matches(pre, call.arg)
    /\ \E k \in Matches(pre, call.arg) :
           /\ \A j \in Matches(pre, call.arg) : k <= j
           /\ pre[k].title # call.arg
           /\ heap[BooksRef] = Without(pre, k)

\* C2: remove_book(t) returns a boolean: TRUE exactly when some stored title
\* equals t up to case, and then one record is gone; FALSE exactly when none
\* does, and then the store is as it was; on an empty store it returns FALSE.
C2_RemoveReportsMatch ==
    call.op = "remove" =>
        /\ call.ret \in BOOLEAN
        /\ call.ret <=> (Matches(pre, call.arg) # {})
        /\ call.ret => Len(heap[BooksRef]) = Len(pre) - 1
        /\ ~call.ret => heap[BooksRef] = pre
        /\ pre = <<>> => call.ret = FALSE

\* A remove_book on a store that holds books, none with the title.
C2_Witness ==
    /\ call.op = "remove"
    /\ pre # <<>>
    /\ call.ret = FALSE
    /\ heap[BooksRef] = pre

\* C3: on an InMemoryLibrary that started empty and saw only add_book calls,
\* get_books returns the added books in the order of the calls, duplicates kept.
C3_ListIsInsertionOrder ==
    (lib = InMemory /\ ~removed /\ call.op = "get") => call.ret = adds

\* A get_books after three adds, the first two of one and the same book, in
\* an order that is not the sorted one.
C3_Witness ==
    /\ lib = InMemory
    /\ ~removed
    /\ call.op = "get"
    /\ Len(adds) >= 3
    /\ adds[1] = adds[2]
    /\ call.ret = adds
    /\ call.ret # sorted(call.ret)

\* C4: the list get_books returns, through any composition, is the caller's
\* own: the caller changing it leaves the store, and what get_books returns
\* later, as they were, and later add_book and remove_book calls leave the
\* list as the caller last had it.
C4_ListIsSnapshot ==
    /\ snap # 0 => heap[snap] = snapVal
    /\ call.op = "mutate" => heap[BooksRef] = pre
    /\ heap[BooksRef] = plain.books
    /\ call.op = "get" =>
           /\ IsPermutation(call.ret, plain.books)
           /\ ~Has(lib, "SortedViewLibrary") => call.ret = plain.books

\* The caller has changed the list it got from a store that holds books.
C4_Witness ==
    /\ call.op = "mutate"
    /\ snap # 0
    /\ pre # <<>>
    /\ heap[snap] # pre
    /\ ~IsPermutation(heap[snap], pre)
    /\ heap[BooksRef] = pre

\* C5: get_books through a SortedViewLibrary returns the stored records, each
\* as many times as it is stored, every two neighbours in the order of the
\* key (title lower-cased, then year).
C5_SortedView ==
    (call.op = "get" /\ Has(lib, "SortedViewLibrary")) =>
        /\ IsPermutation(call.ret, heap[BooksRef])
        /\ \A i \in 1..(Len(call.ret) - 1) : KeyNotAfter(call.ret[i], call.ret[i + 1])

\* A sorted list that is not in the stored order, with two titles equal up to
\* case in the order of their years and a title that its case would misplace.
C5_Witness ==
    /\ call.op = "get"
    /\ Has(lib, "SortedViewLibrary")
    /\ Len(call.ret) >= 3
    /\ call.ret # heap[BooksRef]
    /\ \E i \in 1..(Len(call.ret) - 1) :
           /\ call.ret[i].title # call.ret[i + 1].title
           /\ Lower(call.ret[i].title) = Lower(call.ret[i + 1].title)
           /\ call.ret[i].year < call.ret[i + 1].year
    /\ \E i \in 1..(Len(call.ret) - 1) : StrLess(call.ret[i + 1].title, call.ret[i].title)

\* C6: through every composition each call returns what a bare
\* InMemoryLibrary returns (get_books through a SortedViewLibrary aside) and
\* leaves _books as the bare one holds it; get_books never changes _books.
C6_DecoratorsTransparent ==
    /\ heap[BooksRef] = plain.books
    /\ call.op \in {"add", "remove"} => call.ret = plain.ret
    /\ (call.op = "get" /\ ~Has(lib, "SortedViewLibrary")) => call.ret = plain.ret
    /\ call.op = "get" => heap[BooksRef] = pre

\* Through main's composition, a remove_book that removed a record of a
\* store that is not in sorted order.
C6_Witness ==
    /\ lib = MainLib
    /\ call.op = "remove"
    /\ call.ret = TRUE
    /\ pre # sorted(pre)
    /\ heap[BooksRef] = plain.books
    /\ Len(heap[BooksRef]) >= 2

\* C9: a LoggingLibraryDecorator writes one line for each add_book and each
\* remove_book, naming the call and its argument, before the inner store
\* changes or answers, and returns the inner answer; get_books writes nothing.
C9_AuditBeforeDelegation ==
    Has(lib, "LoggingLibraryDecorator") =>
        /\ call.op = "add" =>
               /\ Printed(trace) =
                      << <<"[","L","O","G","]"," ","a","d","d",":"," ">> \o Book_str(call.arg) >>
               /\ trace[1].ev = "print"
               /\ call.arg = Book(Dune, Herbert, 1965) =>
                      trace[1].arg = <<"[","L","O","G","]"," ","a","d","d",":"," ","T","i","t","l","e",":"," ","\"","D","u","n","e","\"",","," ","A","u","t","h","o","r",":"," ","H","e","r","b","e","r","t",","," ","Y","e","a","r",":"," ","1","9","6","5">>
        /\ call.op = "remove" =>
               /\ Printed(trace) =
                      << <<"[","L","O","G","]"," ","r","e","m","o","v","e",":"," ","\"">>
                         \o call.arg \o <<"\"">> >>
               /\ trace[1].ev = "print"
               /\ call.ret = plain.ret
        /\ call.op = "get" => Printed(trace) = <<>>

\* A remove_book through a LoggingLibraryDecorator that found no record and
\* was logged all the same.
C9_Witness ==
    /\ Has(lib, "LoggingLibraryDecorator")
    /\ call.op = "remove"
    /\ call.ret = FALSE
    /\ pre # <<>>
    /\ Len(trace) = 1
    /\ trace[1].ev = "print"

\* The year strings of RawYears that Python's int() reads as an integer > 0,
\* each with that integer; every other string of RawYears is refused.
ValidYears ==
    { << <<"1","9","6","5">>, 1965 >>, << <<"1","9","4","9">>, 1949 >>,
      << <<"1","9","9","9">>, 1999 >>, << <<" ","1","9","4","9"," ">>, 1949 >>,
      << <<"+","1","9","6","5">>, 1965 >>, << <<"1","_","9","9","9">>, 1999 >>,
      << <<"\t","1","9","6","5">>, 1965 >>, << <<"1","9","6","5","\n">>, 1965 >>,
      << <<" ","\t","1","9","4","9","\r","\n">>, 1949 >>,
      << <<"<U+000B>","1","9","9","9","<U+00A0>">>, 1999 >>,
      << <<"<U+2003>","1","9","4","9","<U+3000>">>, 1949 >>,
      << <<"<U+0661>","<U+0669>","<U+0666>","<U+0665>">>, 1965 >>,
      << <<"1","<U+0669>","_","4","9">>, 1949 >>,
      << <<"<U+FF11>","<U+FF19>","<U+FF16>","<U+FF15>">>, 1965 >>,
      << <<"<U+06F1>","<U+06F9>","<U+06F4>","<U+06F9>">>, 1949 >>,
      << <<"<U+0967>","<U+096F>","<U+096F>","<U+096F>">>, 1999 >>,
      << <<"<U+1D7CF>","<U+1D7D7>","<U+1D7D2>","<U+1D7D7>">>, 1949 >>,
      << <<"<U+FF11>","<U+0669>","_","<U+06F6>","<U+096B>">>, 1965 >>,
      << <<"<U+3000>","<U+1E951>","<U+1E959>","<U+1E959>","<U+1E959>","<U+2028>">>, 1999 >> }

\* C7: the manager's add_book raises ValueError("Year must be a positive
\* integer.") exactly when the year string is no integer or is one <= 0; then
\* the store is as it was and nothing is written or logged.  Otherwise one
\* Book with the title, the author and the parsed year is added at the end and
\* "Book added." is written last.
C7_AddValidatesYear ==
    call.op = "mgr_add" =>
        LET title  == call.arg[1]
            author == call.arg[2]
            raw    == call.arg[3]
            valid  == {p \in ValidYears : p[1] = raw}
        IN  IF valid = {}
            THEN /\ call.ret.raised
                 /\ call.ret.msg = <<"Y","e","a","r"," ","m","u","s","t"," ","b","e"," ","a"," ","p","o","s","i","t","i","v","e"," ","i","n","t","e","g","e","r",".">>
                 /\ heap[BooksRef] = pre
                 /\ trace = <<>>
            ELSE /\ ~call.ret.raised
                 /\ \A p \in valid : heap[BooksRef] = Append(pre, Book(title, author, p[2]))
                 /\ Len(SelectSeq(trace, IsListEvent)) = 1
                 /\ trace[Len(trace)] = [ev |-> "print", arg |-> <<"B","o","o","k"," ","a","d","d","e","d",".">>]

\* Through main's composition, an add_book with the year "0" on a store that
\* holds a book: refused, nothing stored, nothing logged.
C7_Witness ==
    /\ lib = MainLib
    /\ call.op = "mgr_add"
    /\ call.arg[3] = <<"0">>
    /\ call.ret.raised
    /\ pre # <<>>
    /\ heap[BooksRef] = pre
    /\ trace = <<>>

\* C8: whatever the manager was asked to add, remove or show, every book of
\* the store has an integer year > 0.
C8_StoredYearsPositive ==
    \A i \in 1..Len(heap[BooksRef]) :
        heap[BooksRef][i].year \in Int /\ heap[BooksRef][i].year > 0

\* The manager has just added a second book, of the year 1999, written "1_999".
C8_Witness ==
    /\ call.op = "mgr_add"
    /\ call.arg[3] = <<"1","_","9","9","9">>
    /\ ~call.ret.raised
    /\ Len(heap[BooksRef]) >= 2
    /\ heap[BooksRef][Len(heap[BooksRef])].year = 1999

\* C10: through a manager over a SortedViewLibrary, from an empty catalog:
\* after add_book("Dune","Herbert","1965") and add_book("1984","Orwell","1949"),
\* show_books writes the "1984" record and then the "Dune" record;
\* remove_book("dune") then writes "Book removed." and leaves the "1984"
\* record alone, which the next show_books writes.
C10_EndToEnd ==
    Head(lib) = "SortedViewLibrary" =>
        /\ e2e = 3 =>
               Printed(trace) =
                   << <<"T","i","t","l","e",":"," ","\"","1","9","8","4","\"",","," ","A","u","t","h","o","r",":"," ","O","r","w","e","l","l",","," ","Y","e","a","r",":"," ","1","9","4","9">>,
                      <<"T","i","t","l","e",":"," ","\"","D","u","n","e","\"",","," ","A","u","t","h","o","r",":"," ","H","e","r","b","e","r","t",","," ","Y","e","a","r",":"," ","1","9","6","5">> >>
        /\ e2e = 4 =>
               /\ trace[Len(trace)] = [ev |-> "print", arg |-> <<"B","o","o","k"," ","r","e","m","o","v","e","d",".">>]
               /\ heap[BooksRef] = << Book(N1984, Orwell, 1949) >>
        /\ e2e = 5 =>
               Printed(trace) =
                   << <<"T","i","t","l","e",":"," ","\"","1","9","8","4","\"",","," ","A","u","t","h","o","r",":"," ","O","r","w","e","l","l",","," ","Y","e","a","r",":"," ","1","9","4","9">> >>

\* The whole scenario was run through main's composition.
C10_Witness ==
    /\ lib = MainLib
    /\ e2e = 5
    /\ call.op = "mgr_show"
    /\ Len(Printed(trace)) = 1

====
